---- MODULE Spec2Model ----
(***************************************************************************)
(* Model of pkg/kernelcache/sandbox.go: the opcode-name extractor          *)
(* (GetSandboxOpts), the profile-collection parser (ParseSandboxCollection)*)
(* and the blob locator (getSandboxData).                                  *)
(*                                                                         *)
(* Representation notes.                                                   *)
(*  - A byte is a number in 0..255; a blob, a name, a regex is a sequence  *)
(*    of bytes.  A Go string is the sequence of its bytes.                 *)
(*  - A uint64 read from the blob is kept as the tuple of its 8 bytes in   *)
(*    little-endian order (the numbers would not fit the checker's         *)
(*    integers); the zero value is the all-zero tuple.                     *)
(*  - A tagged pointer is the record [tag |-> bits 48..63, low |-> bits    *)
(*    0..47]; the zero pointer has tag = 0 and low = 0.                    *)
(***************************************************************************)
EXTENDS Integers, Sequences, FiniteSets, TLC

VARIABLES
    \* GetSandboxOpts
    ptrs,        \* the __DATA_CONST,__const section as a pointer array
    ptrIdx,      \* number of pointers the range loop has consumed
    found,       \* local found
    bcOpts,      \* local bcOpts
    optsPc       \* "idle" | "loop" | "done"

optsVars == <<ptrs, ptrIdx, found, bcOpts, optsPc>>

VARIABLES
    \* ParseSandboxCollection
    data,        \* argument data: the blob
    opsList,     \* argument opsList
    sb           \* what the call gave: [kind |-> "none" | "ok" | "err" | "panic", ...]

parseVars == <<data, opsList, sb>>

VARIABLES
    \* getSandboxData: the image it is run on
    code,             \* the instruction words of the sandbox kext, in order
    infos,            \* the kext info names, in order
    pivotInImage,     \* whether the image holds the panic string
    \* getSandboxData: its locals
    panicStrVMAddr,
    sbInstrData,      \* the words read from the kext's range
    wordIdx,          \* words the reader dr has given out
    startAddr,
    prevInstr,
    references,
    panicXrefVMAddr,
    failXrefVMAddr,
    profileVMAddr,
    profileSize,
    ret,              \* what the call returned
    locPc,            \* "idle" | "start" | "pass1" | "failXref" | "pass2" | "done"
    calls             \* the earlier calls on this image: what each chose and returned

imageVars == <<code, infos, pivotInImage>>
localVars == <<panicStrVMAddr, sbInstrData, wordIdx, startAddr, prevInstr,
               references, panicXrefVMAddr, failXrefVMAddr, profileVMAddr,
               profileSize, ret, locPc>>
locVars == <<imageVars, localVars, calls>>

vars == <<optsVars, parseVars, locVars>>

(***************************************************************************)
(* Bounds of the model                                                     *)
(***************************************************************************)
MaxPtrs == 4
MaxProfiles == 2
MaxOpCount == 2
MaxOpNodes == 1
MaxOpsList == 3
MaxItemLen == 3
MaxCut == 1
MaxEdits == 1

(***************************************************************************)
(* A function that is not being run                                        *)
(***************************************************************************)
OptsIdle ==
    /\ ptrs = <<>>
    /\ ptrIdx = 0
    /\ found = FALSE
    /\ bcOpts = <<>>
    /\ optsPc = "idle"

ParseIdle ==
    /\ data = <<>>
    /\ opsList = <<>>
    /\ sb = [kind |-> "none"]

NilInstr == [Address |-> 0, Operation |-> "nil", Encoding |-> "", Operands |-> <<>>]

NoReturn == [kind |-> "none"]

LocalsInit ==
    /\ panicStrVMAddr = 0
    /\ sbInstrData = <<>>
    /\ wordIdx = 0
    /\ startAddr = 0
    /\ prevInstr = NilInstr
    /\ references = <<>>
    /\ panicXrefVMAddr = 0
    /\ failXrefVMAddr = 0
    /\ profileVMAddr = 0
    /\ profileSize = 0
    /\ ret = NoReturn

LocIdle ==
    /\ code = <<>>
    /\ infos = <<>>
    /\ pivotInImage = FALSE
    /\ LocalsInit
    /\ locPc = "idle"
    /\ calls = <<>>

(***************************************************************************)
(* Readers: encoding/binary over a bytes.Reader, little endian             *)
(***************************************************************************)
RECURSIVE Flatten(_)
Flatten(ss) == IF ss = <<>> THEN <<>> ELSE Head(ss) \o Flatten(Tail(ss))

Zeros(n) == [i \in 1..n |-> 0]

LE16(v) == <<v % 256, v \div 256>>

\* The n bytes of d from (0-based) position pos on.
Bytes(d, pos, n) == [i \in 1..n |-> d[pos + i]]

U16(d, pos) == d[pos + 1] + 256 * d[pos + 2]

\* binary.Read of n bytes at position pos fails (io.EOF or
\* io.ErrUnexpectedEOF) when fewer than n bytes are left; a read of no
\* bytes succeeds at any position.
ReadFails(d, pos, n) == n > 0 /\ pos + n > Len(d)

\* (*bytes.Reader).Read into a zeroed buffer of n bytes at position pos:
\* io.EOF when the position is at or past the end (whatever n is), else the
\* bytes that are left, up to n, are copied and no error is returned; the
\* rest of the buffer stays zero.
ReaderRead(d, pos, n) ==
    IF pos >= Len(d)
    THEN [err |-> TRUE, buf |-> <<>>]
    ELSE [err |-> FALSE,
          buf |-> [i \in 1..n |-> IF pos + i <= Len(d) THEN d[pos + i] ELSE 0]]

\* A named object: seek to pos, binary.Read a u16 length, then Read that
\* many bytes.
ReadItem(d, pos) ==
    IF ReadFails(d, pos, 2)
    THEN [err |-> TRUE, buf |-> <<>>]
    ELSE ReaderRead(d, pos + 2, U16(d, pos))

\* strings.Trim(s, "\x00"): the leading and the trailing NULs are cut.
RECURSIVE TrimLeft(_)
TrimLeft(s) == IF s # <<>> /\ Head(s) = 0 THEN TrimLeft(Tail(s)) ELSE s

RECURSIVE TrimRight(_)
TrimRight(s) ==
    IF s # <<>> /\ s[Len(s)] = 0 THEN TrimRight(SubSeq(s, 1, Len(s) - 1)) ELSE s

TrimMutRightOnly(s) == TrimRight(s)

Trim(s) == TrimRight(TrimLeft(s))

(***************************************************************************)
(* ParseSandboxCollection                                                  *)
(***************************************************************************)
\* binary.Size(SandboxProfileCollection{}): 2+2+1+1+2+2+2
HeaderSize == 12

Header(d) ==
    [Version        |-> U16(d, 0),
     OpNodeSize     |-> U16(d, 2),
     OpCount        |-> d[5],
     GlobalVarCount |-> d[6],
     ProfileCount   |-> U16(d, 6),
     RegexItemCount |-> U16(d, 8),
     MsgItemCount   |-> U16(d, 10)]

\* uint32(collection.OpCount+uint8(binary.Size(uint16(0)))) * 2: the sum is
\* a uint8 and wraps at 256.
profileRecordSize(h) == ((h.OpCount + 2) % 256) * 2

globalVarStart(h) == 2 * h.RegexItemCount + 12
globalVarEnd(h) == globalVarStart(h) + 2 * h.GlobalVarCount
opNodeStartTmp(h) ==
    globalVarEnd(h) + 2 * h.MsgItemCount + profileRecordSize(h) * h.ProfileCount

\* x & 6 of a non-negative x
And6(x) == 2 * ((x \div 2) % 4)

opNodeStartDelta(h) ==
    IF And6(opNodeStartTmp(h)) = 0 THEN 0 ELSE 8 - And6(opNodeStartTmp(h))

opNodeStart(h) == opNodeStartDelta(h) + opNodeStartTmp(h)

baseAddr(h) == opNodeStart(h) + h.OpNodeSize * 8

\* Where the reader stands after the header and each offset table.
regexOffsetsPos == HeaderSize
globalOffsetsPos(h) == regexOffsetsPos + 2 * h.RegexItemCount
msgOffsetsPos(h) == globalOffsetsPos(h) + 2 * h.GlobalVarCount
profilesPos(h) == msgOffsetsPos(h) + 2 * h.MsgItemCount

regexOffsets(d, h) ==
    [i \in 1..h.RegexItemCount |-> U16(d, regexOffsetsPos + 2 * (i - 1))]
globalOffsets(d, h) ==
    [i \in 1..h.GlobalVarCount |-> U16(d, globalOffsetsPos(h) + 2 * (i - 1))]

\* The first loop: profile number p (from 1) is the profileSize bytes the
\* reader gives next.
profileData(d, h, p) == Bytes(d, profilesPos(h) + (p - 1) * profileRecordSize(h), profileRecordSize(h))

Min(S) == CHOOSE x \in S : \A y \in S : x <= y

\* The operations loop of one profile record prof: "panic" when opsList[i]
\* is out of range, "err" when the index cannot be read, in the order the
\* loop meets them.
OperationsOutcome(prof, h, ops) ==
    LET bad == {i \in 0..(h.OpCount - 1) :
                    i >= Len(ops) \/ ReadFails(prof, 4 + 2 * i, 2)}
    IN  IF bad = {} THEN "ok"
        ELSE IF Min(bad) >= Len(ops) THEN "panic" ELSE "err"

OperationNameMutShift(ops, i) == ops[((i + 1) % Len(ops)) + 1]

\* SandboxOperation{Name: opsList[i]} for i from 0
OperationName(ops, i) == ops[i + 1]

\* The operations of one profile record, Value not yet looked up.
Operations(prof, h, ops) ==
    [i \in 1..h.OpCount |->
        [Name |-> OperationName(ops, i - 1), Index |-> U16(prof, 4 + 2 * (i - 1))]]

\* The second loop's body for profile number p: "ok", "err" or "panic".
ProfileOutcome(d, h, ops, p) ==
    LET prof == profileData(d, h, p)
    IN  IF ReadFails(prof, 0, 2) \/ ReadFails(prof, 2, 2) THEN "err"
        ELSE IF OperationsOutcome(prof, h, ops) # "ok"
             THEN OperationsOutcome(prof, h, ops)
        ELSE IF ReadItem(d, baseAddr(h) + 8 * U16(prof, 0)).err THEN "err"
        ELSE "ok"

Profile(d, h, ops, p) ==
    LET prof == profileData(d, h, p)
    IN  [Name       |-> Trim(ReadItem(d, baseAddr(h) + 8 * U16(prof, 0)).buf),
         Version    |-> U16(prof, 2),
         Operations |-> Operations(prof, h, ops)]

\* The kind of the first profile the second loop does not get through.
ProfilesOutcome(d, h, ops) ==
    LET bad == {p \in 1..h.ProfileCount : ProfileOutcome(d, h, ops, p) # "ok"}
    IN  IF bad = {} THEN "ok" ELSE ProfileOutcome(d, h, ops, Min(bad))

opNodeCount(h) == (baseAddr(h) - opNodeStart(h)) \div 8

opNodeOffsets(d, h) ==
    [j \in 1..opNodeCount(h) |-> U16(d, opNodeStart(h) + 2 * (j - 1))]

Zero64 == Zeros(8)

\* opNodes := make([]uint64, opNodeCount), then one append per offset: the
\* values follow opNodeCount zero entries.
opNodes(d, h) ==
    [j \in 1..opNodeCount(h) |-> Zero64]
        \o [j \in 1..opNodeCount(h) |-> Bytes(d, opNodeOffsets(d, h)[j], 8)]

OpNodesOutcome(d, h) ==
    IF ReadFails(d, opNodeStart(h), 2 * opNodeCount(h)) THEN "err"
    ELSE IF \E j \in 1..opNodeCount(h) : ReadFails(d, opNodeOffsets(d, h)[j], 8)
         THEN "err"
    ELSE "ok"

\* sb.OpNodes[opoff] = opNodeValue
OpNodesMap(d, h) ==
    [o \in {opNodeOffsets(d, h)[j] : j \in 1..opNodeCount(h)} |-> Bytes(d, o, 8)]

\* sb.Profiles[i].Operations[j].Value = opNodes[o.Index] panics when the
\* index is not below len(opNodes).
ValuesOutcome(d, h, ops) ==
    IF \E p \in 1..h.ProfileCount : \E i \in 1..h.OpCount :
           Profile(d, h, ops, p).Operations[i].Index >= Len(opNodes(d, h))
    THEN "panic" ELSE "ok"

ProfileWithValues(d, h, ops, p) ==
    LET sp == Profile(d, h, ops, p)
    IN  [sp EXCEPT !.Operations =
            [i \in 1..h.OpCount |->
                [Name  |-> sp.Operations[i].Name,
                 Index |-> sp.Operations[i].Index,
                 Value |-> opNodes(d, h)[sp.Operations[i].Index + 1]]]]

GlobalsOutcome(d, h) ==
    IF \E i \in 1..h.GlobalVarCount :
           ReadItem(d, baseAddr(h) + 8 * globalOffsets(d, h)[i]).err
    THEN "err" ELSE "ok"

Globals(d, h) ==
    [g \in {globalOffsets(d, h)[i] : i \in 1..h.GlobalVarCount} |->
        Trim(ReadItem(d, baseAddr(h) + 8 * g).buf)]

RegexesOutcome(d, h) ==
    IF \E i \in 1..h.RegexItemCount :
           ReadItem(d, baseAddr(h) + 8 * regexOffsets(d, h)[i]).err
    THEN "err" ELSE "ok"

Regexes(d, h) ==
    [r \in {regexOffsets(d, h)[i] : i \in 1..h.RegexItemCount} |->
        ReadItem(d, baseAddr(h) + 8 * r).buf]

Failed(kind) == [kind |-> kind]

\* The call as a whole: the stages in the order the function runs them, the
\* first one that fails ending the call.
ParseSandboxCollection(d, ops) ==
    IF ReadFails(d, 0, HeaderSize) THEN Failed("err")
    ELSE LET h == Header(d)
         IN  IF \/ ReadFails(d, regexOffsetsPos, 2 * h.RegexItemCount)
                \/ ReadFails(d, globalOffsetsPos(h), 2 * h.GlobalVarCount)
                \/ ReadFails(d, msgOffsetsPos(h), 2 * h.MsgItemCount)
                \/ ReadFails(d, profilesPos(h), profileRecordSize(h) * h.ProfileCount)
             THEN Failed("err")
             ELSE IF ProfilesOutcome(d, h, ops) # "ok"
                  THEN Failed(ProfilesOutcome(d, h, ops))
             ELSE IF OpNodesOutcome(d, h) # "ok" THEN Failed("err")
             ELSE IF ValuesOutcome(d, h, ops) # "ok" THEN Failed("panic")
             ELSE IF GlobalsOutcome(d, h) # "ok" THEN Failed("err")
             ELSE IF RegexesOutcome(d, h) # "ok" THEN Failed("err")
             ELSE [kind     |-> "ok",
                   Profiles |-> [p \in 1..h.ProfileCount |->
                                    ProfileWithValues(d, h, ops, p)],
                   OpNodes  |-> OpNodesMap(d, h),
                   Globals  |-> Globals(d, h),
                   Regexes  |-> Regexes(d, h)]

(***************************************************************************)
(* The blobs and opcode lists the parser is run on                         *)
(***************************************************************************)
\* A blob laid out as the format says, cut bytes short of its end:
\*   n       op_node_size, nodeOffs its n op-node offsets
\*   oc      op_count
\*   rOffs, gOffs, mOffs   the three offset tables
\*   profs   the profile records [nameOff, version, idx]
\*   items   the raw items [len, bytes] of the 8-byte slots from base_addr
\*           on (the last one is not padded)
MkHeader(n, oc, rOffs, gOffs, mOffs, profs) ==
    LE16(1) \o LE16(n) \o <<oc, Len(gOffs)>> \o LE16(Len(profs))
        \o LE16(Len(rOffs)) \o LE16(Len(mOffs))

MkTable(offs) == Flatten([i \in 1..Len(offs) |-> LE16(offs[i])])

MkProfile(prof) ==
    LE16(prof.nameOff) \o LE16(prof.version) \o MkTable(prof.idx)

MkItem(item, padded) ==
    LE16(item.len) \o item.bytes
        \o (IF padded THEN Zeros(8 - ((2 + Len(item.bytes)) % 8)) ELSE <<>>)

MkBlob(n, nodeOffs, oc, rOffs, gOffs, mOffs, profs, items, cut) ==
    LET head == MkHeader(n, oc, rOffs, gOffs, mOffs, profs)
                    \o MkTable(rOffs) \o MkTable(gOffs) \o MkTable(mOffs)
                    \o Flatten([p \in 1..Len(profs) |-> MkProfile(profs[p])])
        h    == Header(head)
        all  == head \o Zeros(opNodeStart(h) - Len(head))
                    \o MkTable(nodeOffs) \o Zeros(6 * n)
                    \o Flatten([k \in 1..Len(items) |->
                                   MkItem(items[k], k < Len(items))])
    IN  SubSeq(all, 1, Len(all) - cut)

AllOps == <<"default", "file*", "mach*", "iokit*", "sysctl*", "signal">>

OpsLists == {SubSeq(AllOps, 1, k) : k \in 0..MaxOpsList}

ItemA == [len |-> 1, bytes |-> <<97>>]
ItemB == [len |-> 2, bytes |-> <<98, 98>>]

\* Blobs that vary the profile records and the op-node table: profile p has
\* version p and is named by slot (p - 1) % 2.
RecordBlobs ==
    UNION { UNION { UNION {
        { MkBlob(n, nodeOffs, oc, <<>>, <<>>, mOffs,
                 [p \in 1..np |-> [nameOff |-> (p - 1) % 2, version |-> p,
                                   idx |-> idxs[p]]],
                 <<ItemA, ItemB>>, 0) :
            idxs \in [1..np -> [1..oc -> {0, 1}]],
            nodeOffs \in [1..n -> {0, 4}],
            mOffs \in {<<>>, <<0>>} }
        : n \in 0..MaxOpNodes } : oc \in 0..MaxOpCount } : np \in 0..MaxProfiles }

RawItems ==
    UNION { [len : {n}, bytes : [1..n -> {0, 97}]] : n \in 0..MaxItemLen }

\* Blobs that vary the named objects, the tables that refer to them and the
\* length of the blob; the one profile has n operations, all of index n.
ItemBlobs ==
    UNION {
        { MkBlob(n, [j \in 1..n |-> 0], n, rOffs, gOffs, <<>>,
                 <<[nameOff |-> nameOff, version |-> 1, idx |-> [i \in 1..n |-> n]]>>,
                 <<i1, i2>>, cut) :
            nameOff \in {0, 1},
            rOffs \in {<<>>, <<1>>},
            gOffs \in {<<>>, <<0>>},
            i1 \in RawItems, i2 \in RawItems,
            cut \in 0..MaxCut }
        : n \in 0..MaxOpNodes }

\* The largest value of the header's OpCount, a uint8.
MaxUint8 == 255

\* Blobs with the largest operation counts: np profile records of
\* 2 * (op_count + 2) bytes each (name slot 0, version p, every index 0),
\* padding to the next multiple of 8, and one item.
WideBlobs ==
    { LET head == MkHeader(0, oc, <<>>, <<>>, <<>>, [p \in 1..np |-> p])
                    \o Flatten([p \in 1..np |->
                          MkProfile([nameOff |-> 0, version |-> p,
                                     idx |-> [i \in 1..oc |-> 0]])])
      IN  head \o Zeros((8 - (Len(head) % 8)) % 8) \o MkItem(ItemA, FALSE) :
          oc \in {MaxUint8 - 1, MaxUint8}, np \in 0..MaxProfiles }

ParseInit ==
    /\ \/ data \in RecordBlobs /\ opsList \in OpsLists
       \/ data \in ItemBlobs /\ opsList = SubSeq(AllOps, 1, MaxOpNodes)
       \/ data \in WideBlobs /\ opsList = AllOps
    /\ sb = [kind |-> "none"]
    /\ OptsIdle
    /\ LocIdle

\* One call of ParseSandboxCollection(data, opsList).
Parse ==
    /\ sb.kind = "none"
    /\ sb' = ParseSandboxCollection(data, opsList)
    /\ UNCHANGED <<data, opsList, optsVars, locVars>>

ParseNext == Parse

SpecParse == ParseInit /\ [][ParseNext]_vars

(***************************************************************************)
(* Claims about ParseSandboxCollection                                     *)
(***************************************************************************)
Max(S) == CHOOSE x \in S : \A y \in S : x >= y

\* The header of the blob the call was given, and the call returned a
\* Sandbox.
Hdr == Header(data)
Returned == sb.kind = "ok"

\* Where profile record p (from 1) starts when records are 2 * (op_count + 2)
\* bytes each, right after the three offset tables.
RecordPos(p) ==
    12 + 2 * (Hdr.RegexItemCount + Hdr.GlobalVarCount + Hdr.MsgItemCount)
       + (p - 1) * 2 * (Hdr.OpCount + 2)

\* The op-node values by position in the offset table, 0..n-1.
OpNodesPositional ==
    [j \in 0..(Hdr.OpNodeSize - 1) |->
        Bytes(data, U16(data, opNodeStart(Hdr) + 2 * j), 8)]

\* C2: in a returned Sandbox every operation's Value is the op-node value at
\* position Index of the offset table (positions 0..n-1).
C2_ValueIsPositional ==
    Returned =>
        \A p \in 1..Len(sb.Profiles) :
            \A i \in 1..Len(sb.Profiles[p].Operations) :
                LET o == sb.Profiles[p].Operations[i]
                IN  o.Index < Hdr.OpNodeSize => o.Value = OpNodesPositional[o.Index]

\* C3: a returned Sandbox has profile_count profiles in blob order, each
\* with op_count operations, the i-th named opcode_list[i] and indexed by the
\* i-th u16 after the record's name_offset and version.
C3_ProfilesAndOperations ==
    Returned =>
        /\ Len(sb.Profiles) = Hdr.ProfileCount
        /\ \A p \in 1..Len(sb.Profiles) :
            /\ sb.Profiles[p].Version = U16(data, RecordPos(p) + 2)
            /\ Len(sb.Profiles[p].Operations) = Hdr.OpCount
            /\ \A i \in 1..Hdr.OpCount :
                /\ sb.Profiles[p].Operations[i].Name = opsList[i]
                /\ sb.Profiles[p].Operations[i].Index
                       = U16(data, RecordPos(p) + 4 + 2 * (i - 1))

\* Two profiles of two operations each were returned, the two records
\* holding different indices.
C3_Witness ==
    /\ Returned
    /\ Len(sb.Profiles) = 2
    /\ Hdr.OpCount = 2
    /\ sb.Profiles[1].Operations[1].Index # sb.Profiles[1].Operations[2].Index
    /\ sb.Profiles[1].Operations # sb.Profiles[2].Operations

\* The offsets of the named objects a returned Sandbox refers to.
ReferencedOffsets ==
    {U16(data, RecordPos(p)) : p \in 1..Hdr.ProfileCount}
        \cup {globalOffsets(data, Hdr)[i] : i \in 1..Hdr.GlobalVarCount}
        \cup {regexOffsets(data, Hdr)[i] : i \in 1..Hdr.RegexItemCount}

\* C4: a Sandbox is returned only if every referenced item lies within the
\* blob: base_addr + 8*offset + 2 + item_len <= len(blob).
C4_ItemsWithinBlob ==
    Returned =>
        \A off \in ReferencedOffsets :
            LET pos == baseAddr(Hdr) + 8 * off
            IN  pos + 2 + U16(data, pos) <= Len(data)

\* C5: with op_count above the length of the opcode list and at least one
\* profile, the call ends by returning an error.
C5_OpCountErrorReturned ==
    (/\ sb.kind # "none"
     /\ Len(data) >= HeaderSize
     /\ Hdr.OpCount > Len(opsList)
     /\ Hdr.ProfileCount >= 1)
        => sb.kind = "err"

\* The names and global strings of a returned Sandbox.
ReturnedStrings ==
    {sb.Profiles[p].Name : p \in 1..Len(sb.Profiles)}
        \cup {sb.Globals[g] : g \in DOMAIN sb.Globals}

\* C8 as stated: no returned name or global string holds a NUL byte.
C8_NoNulAnywhere ==
    Returned => \A str \in ReturnedStrings : \A i \in 1..Len(str) : str[i] # 0

\* The bytes of the blob that belong to the item at pos.
RawItemBytes(pos) ==
    LET n == U16(data, pos)
        m == IF pos + 2 + n <= Len(data) THEN n ELSE Len(data) - (pos + 2)
    IN  Bytes(data, pos + 2, m)

\* s from its first to its last non-NUL byte.
Stripped(s) ==
    LET nn == {i \in 1..Len(s) : s[i] # 0}
    IN  IF nn = {} THEN <<>> ELSE SubSeq(s, Min(nn), Max(nn))

\* C8 as amended: no returned name or global string begins or ends with a
\* NUL byte, each being its raw item from the first to the last non-NUL byte
\* (leading NULs are cut as well as trailing ones, NULs in between are kept).
C8_NoNulAtEnds ==
    Returned =>
        /\ \A str \in ReturnedStrings :
               str # <<>> => (str[1] # 0 /\ str[Len(str)] # 0)
        /\ \A p \in 1..Len(sb.Profiles) :
               sb.Profiles[p].Name
                   = Stripped(RawItemBytes(baseAddr(Hdr) + 8 * U16(data, RecordPos(p))))
        /\ \A g \in DOMAIN sb.Globals :
               sb.Globals[g] = Stripped(RawItemBytes(baseAddr(Hdr) + 8 * g))

\* A returned profile name keeps a NUL between two other bytes, and a
\* returned global string lost a leading NUL.
C8_Witness ==
    /\ Returned
    /\ \E p \in 1..Len(sb.Profiles) : sb.Profiles[p].Name = <<97, 0, 97>>
    /\ \E g \in DOMAIN sb.Globals :
           /\ sb.Globals[g] = <<97>>
           /\ RawItemBytes(baseAddr(Hdr) + 8 * g) = <<0, 97>>


\* align8(x) = x + (8 - (x & 6)) if (x & 6) != 0 else x
Align8(x) == IF And6(x) # 0 THEN x + (8 - And6(x)) ELSE x

\* The position after the profile records when each takes
\* 2 * (op_count + 2) bytes.
PosAfterProfiles ==
    12 + 2 * (Hdr.RegexItemCount + Hdr.GlobalVarCount + Hdr.MsgItemCount)
       + 2 * (Hdr.OpCount + 2) * Hdr.ProfileCount

\* C12: for every header the call has read, the layout values are those of
\* the formulas in unbounded arithmetic: profile_size = 2 * (op_count + 2),
\* op_node_start = align8(12 + 2 * (regex + global + msg) + profile_size *
\* profile_count), base_addr = op_node_start + 8 * op_node_size, and every
\* profile record that is read in full is profile_size bytes long.
C12_LayoutWithoutWrap ==
    (sb.kind # "none" /\ Len(data) >= HeaderSize) =>
        /\ profileRecordSize(Hdr) = 2 * (Hdr.OpCount + 2)
        /\ opNodeStart(Hdr) = Align8(PosAfterProfiles)
        /\ baseAddr(Hdr) = Align8(PosAfterProfiles) + 8 * Hdr.OpNodeSize
        /\ \A p \in 1..Hdr.ProfileCount :
              ~ReadFails(data, profilesPos(Hdr) + (p - 1) * profileRecordSize(Hdr),
                         profileRecordSize(Hdr))
                 => Len(profileData(data, Hdr, p)) = 2 * (Hdr.OpCount + 2)
(***************************************************************************)
(* GetSandboxOpts                                                          *)
(***************************************************************************)
\* The tag that marks "directly followed by another pointer" (0x17).
FollowTag == 23
\* Tags other than 0x17 (0x10 stands for them).
OtherTags == {16}

\* The C-strings of the modelled image: the string at untagged address a is
\* CStrings[a]; no other address is mapped.
CStrings == <<"default", "file*">>

ZeroPtr == [tag |-> 0, low |-> 0]

Pointers ==
    {ZeroPtr} \cup [tag : {FollowTag} \cup OtherTags,
                    low : 1..(Len(CStrings) + 1)]

\* ptr >> 48
getTag(ptr) == ptr.tag

\* m.GetCString(ptr | tagPtrMask): the read depends on the low 48 bits only,
\* the tag bits being forced to 0xffff.
GetCString(ptr) ==
    IF ptr.low \in 1..Len(CStrings)
    THEN [err |-> FALSE, str |-> CStrings[ptr.low]]
    ELSE [err |-> TRUE, str |-> ""]

OptsInit ==
    /\ ptrs \in UNION {[1..n -> Pointers] : n \in 0..MaxPtrs}
    /\ ptrIdx = 0
    /\ found = FALSE
    /\ bcOpts = <<>>
    /\ optsPc = "loop"
    /\ ParseIdle
    /\ LocIdle

\* The outcome of one iteration of the range loop on pointer ptr:
\* what found and bcOpts become and whether the loop breaks.
OptsBodyMutNoBreak(ptr, f, out) ==
    IF ptr = ZeroPtr
    THEN [found |-> f, bcOpts |-> out, brk |-> FALSE]
    ELSE LET r == GetCString(ptr)
         IN  IF r.err
             THEN [found |-> f, bcOpts |-> out, brk |-> f]
             ELSE LET f2 == f \/ r.str = "default"
                  IN  IF f2
                      THEN [found |-> TRUE, bcOpts |-> Append(out, r.str),
                            brk |-> FALSE]
                      ELSE [found |-> FALSE, bcOpts |-> out, brk |-> FALSE]

OptsBody(ptr, f, out) ==
    IF ptr = ZeroPtr
    THEN [found |-> f, bcOpts |-> out, brk |-> FALSE]
    ELSE LET r == GetCString(ptr)
         IN  IF r.err
             THEN [found |-> f, bcOpts |-> out, brk |-> f]
             ELSE LET f2 == f \/ r.str = "default"
                  IN  IF f2
                      THEN [found |-> TRUE, bcOpts |-> Append(out, r.str),
                            brk |-> getTag(ptr) # FollowTag]
                      ELSE [found |-> FALSE, bcOpts |-> out, brk |-> FALSE]

\* One iteration of "for _, ptr := range ptrs".
OptsStep ==
    /\ optsPc = "loop"
    /\ ptrIdx < Len(ptrs)
    /\ LET b == OptsBody(ptrs[ptrIdx + 1], found, bcOpts)
       IN  /\ found' = b.found
           /\ bcOpts' = b.bcOpts
           /\ ptrIdx' = ptrIdx + 1
           /\ optsPc' = IF b.brk THEN "done" ELSE "loop"
    /\ UNCHANGED <<ptrs, parseVars, locVars>>

\* The range is exhausted: return bcOpts, nil.
OptsReturn ==
    /\ optsPc = "loop"
    /\ ptrIdx = Len(ptrs)
    /\ optsPc' = "done"
    /\ UNCHANGED <<ptrs, ptrIdx, found, bcOpts, parseVars, locVars>>

OptsNext == OptsStep \/ OptsReturn

SpecOpts == OptsInit /\ [][OptsNext]_vars

(***************************************************************************)
(* C1                                                                      *)
(***************************************************************************)
\* The non-zero pointers of the array, in memory order.
NonZero(s) == SelectSeq(s, LAMBDA p : p # ZeroPtr)

\* Positions of nz that hold a readable "default".
DefaultAt(nz) ==
    {i \in 1..Len(nz) : ~GetCString(nz[i]).err /\ GetCString(nz[i]).str = "default"}

\* Positions from start on at which the scan stops: an unreadable string
\* (not appended) or a tag other than 0x17 (appended).
StopsFrom(nz, start) ==
    {i \in start..Len(nz) : GetCString(nz[i]).err \/ getTag(nz[i]) # FollowTag}

ExpectedOpts(s) ==
    LET nz == NonZero(s)
    IN  IF DefaultAt(nz) = {} THEN <<>>
        ELSE LET start == Min(DefaultAt(nz))
                 stops == StopsFrom(nz, start)
                 last  == IF stops = {} THEN Len(nz)
                          ELSE IF GetCString(nz[Min(stops)]).err
                               THEN Min(stops) - 1
                               ELSE Min(stops)
             IN  [i \in 1..(last - start + 1) |-> GetCString(nz[start + i - 1]).str]

\* C1: when GetSandboxOpts returns, bcOpts is exactly the strings of the
\* non-zero pointers from the first "default" on, in memory order, up to and
\* including the first appended pointer whose tag is not 0x17, or up to just
\* before the first unreadable pointer after "default"; nothing later is
\* appended.
C1_OptsExact == optsPc = "done" => bcOpts = ExpectedOpts(ptrs)

\* The claim's example shape: default/0x17, file*/0x10, 0, file*/0x17 has been
\* scanned and gave <<default, file*>>, the pointers after the stop left out.
C1_Witness ==
    /\ optsPc = "done"
    /\ ptrs = << [tag |-> FollowTag, low |-> 1],
                 [tag |-> 16, low |-> 2],
                 ZeroPtr,
                 [tag |-> FollowTag, low |-> 2] >>
    /\ bcOpts = <<"default", "file*">>
(***************************************************************************)
(* The kernelcache image getSandboxData is run on                          *)
(***************************************************************************)
\* Virtual addresses of the modelled image: the sandbox kext's first word,
\* the panic string (page 0x2000, offset 0x10), the profile data (page
\* 0x3000, offset 0x20) and the first address past the image.  Addresses
\* below CodeBase, 0 among them, are not mapped.
Image == [CodeBase |-> 4096, PanicStr |-> 8208, Profile |-> 12320, End |-> 524288]

\* binary.Size(uint32(0))
InstrSize == 4

\* The page of an address, as ADRP computes it.
Page(a) == (a \div 4096) * 4096

\* The address of the word at index i (from 0) of the kext's code.
TrueAddr(i) == Image.CodeBase + InstrSize * i

\* An instruction word, by what it decodes to.  imm is the pc-relative
\* offset of B, CBZ, ADR and the literal LDR ("LDRL"), the page offset of
\* ADRP, and the immediate of the others; "BAD" does not decode.
Word(op, rd, rn, imm, sh) == [op |-> op, rd |-> rd, rn |-> rn, imm |-> imm, sh |-> sh]

\* The failure path of the kext: the profile's address and size are set up,
\* a CBZ leaves for the block that loads the panic string.
Canonical ==
    << Word("ADRP", "x0", "", Page(Image.Profile) - Page(TrueAddr(0)), 0),
       Word("ADD", "x0", "x0", Image.Profile - Page(Image.Profile), 0),
       Word("MOV", "x1", "", 4660, 0),
       Word("MOVK", "x1", "", 5, 16),
       Word("CBZ", "x2", "", TrueAddr(6) - TrueAddr(4), 0),
       Word("NOP", "", "", 0, 0),
       Word("ADRP", "x8", "", Page(Image.PanicStr) - Page(TrueAddr(6)), 0),
       Word("ADD", "x8", "x8", Image.PanicStr - Page(Image.PanicStr), 0) >>

\* The words an edit may put at index i.
EditWords(i) ==
    { Word("BAD", "", "", 0, 0), Word("NOP", "", "", 0, 0),
      Word("B", "", "", TrueAddr(6) - TrueAddr(i), 0),
      Word("CBZ", "x2", "", TrueAddr(6) - TrueAddr(i), 0),
      Word("ADR", "x8", "", Image.PanicStr - TrueAddr(i), 0),
      Word("LDRL", "x8", "", Image.PanicStr - TrueAddr(i), 0),
      Word("MOVK", "x2", "", 5, 16) }
    \cup { Word("ADRP", r, "", Page(a) - Page(TrueAddr(i)), 0) :
             r \in {"x0", "x8"}, a \in {Image.Profile, Image.PanicStr} }
    \cup { Word(op, r, r, imm, 0) :
             op \in {"ADD", "LDR"}, r \in {"x0", "x8"}, imm \in {16, 32} }
    \cup { Word("MOV", "x1", "", imm, 0) : imm \in {4660, 3} }
    \cup { Word("MOVK", "x1", "", 5, sh) : sh \in {0, 16} }

\* The canonical code with at most k words replaced.
RECURSIVE Programs(_)
Programs(k) ==
    IF k = 0 THEN {Canonical}
    ELSE Programs(k - 1) \cup
         UNION { { [prog EXCEPT ![i + 1] = w] :
                       prog \in Programs(k - 1), w \in EditWords(i) } :
                   i \in 0..(Len(Canonical) - 1) }

KextNames == << "com.apple.kec.corecrypto", "com.apple.security.sandbox",
                "com.apple.driver.AppleMobileFileIntegrity" >>
OtherKextNames == << "com.apple.kec.corecrypto",
                     "com.apple.driver.AppleMobileFileIntegrity" >>

\* strings.Contains(string(info.Name[:]), "sandbox")
ContainsSandbox(name) == name = "com.apple.security.sandbox"

(***************************************************************************)
(* disassemble.Decompose                                                   *)
(***************************************************************************)
Opnd(class, reg, imm, shiftType, shiftValue) ==
    [Class |-> class, Reg |-> reg, Immediate |-> imm,
     ShiftType |-> shiftType, ShiftValue |-> shiftValue]

\* Operands[i], i from 0; an operand the instruction does not have is the
\* zero Operand.
Operand(ins, i) ==
    IF i + 1 <= Len(ins.Operands) THEN ins.Operands[i + 1]
    ELSE Opnd("NONE", "", 0, "NONE", 0)

\* The instruction word w decoded at address pc: the instruction carries pc
\* as its Address and its pc-relative operands are made absolute with pc.
Decompose(pc, w) ==
    [err |-> w.op = "BAD",
     Address |-> pc,
     Operation |-> IF w.op = "LDRL" THEN "LDR" ELSE w.op,
     Encoding |-> CASE w.op = "B" -> "B_ONLY_BRANCH_IMM"
                    [] w.op = "CBZ" -> "CBZ_64_COMPBRANCH"
                    [] OTHER -> "OTHER",
     Operands |->
        CASE w.op = "B"    -> << Opnd("LABEL", "", pc + w.imm, "NONE", 0) >>
          [] w.op \in {"CBZ", "ADR", "LDRL"} ->
                << Opnd("REG", w.rd, 0, "NONE", 0),
                   Opnd("LABEL", "", pc + w.imm, "NONE", 0) >>
          [] w.op = "ADRP" ->
                << Opnd("REG", w.rd, 0, "NONE", 0),
                   Opnd("LABEL", "", Page(pc) + w.imm, "NONE", 0) >>
          [] w.op = "ADD"  ->
                << Opnd("REG", w.rd, 0, "NONE", 0), Opnd("REG", w.rn, 0, "NONE", 0),
                   Opnd("IMM32", "", w.imm, "NONE", 0) >>
          [] w.op = "LDR"  ->
                << Opnd("REG", w.rd, 0, "NONE", 0),
                   Opnd("MEM_OFFSET", w.rn, w.imm, "NONE", 0) >>
          [] w.op = "MOV"  ->
                << Opnd("REG", w.rd, 0, "NONE", 0),
                   Opnd("IMM64", "", w.imm, "NONE", 0) >>
          [] w.op = "MOVK" ->
                << Opnd("REG", w.rd, 0, "NONE", 0),
                   Opnd("IMM32", "", w.imm, "LSL", w.sh) >>
          [] OTHER -> << >> ]

Instr(d) == [Address |-> d.Address, Operation |-> d.Operation,
             Encoding |-> d.Encoding, Operands |-> d.Operands]

(***************************************************************************)
(* getSandboxData                                                          *)
(***************************************************************************)
\* The kext range the first loop finds: the start address of the first info
\* whose name contains "sandbox", 0 when there is none.
HasSandboxKext == \E i \in 1..Len(infos) : ContainsSandbox(infos[i])
sandboxKextStartVaddr == IF HasSandboxKext THEN Image.CodeBase ELSE 0

\* m.GetOffset(vmaddr) fails for an address outside the image.
GetOffsetFails(vmaddr) == vmaddr < Image.CodeBase \/ vmaddr >= Image.End

\* m.ReadAt(buf, offset of vmaddr) fails when the image ends before the
\* buffer is full.
ReadAtFails(vmaddr, size) == vmaddr + size > Image.End

\* The ADRP pair's value: the page immediate, plus the second instruction's
\* immediate when its first source register is the ADRP's destination.
AdrpPairImm(prev, ins) ==
    LET adrpRegister == Operand(prev, 0).Reg
        adrpImm == Operand(prev, 1).Immediate
    IN  IF ins.Operation = "LDR" /\ adrpRegister = Operand(ins, 1).Reg
        THEN adrpImm + Operand(ins, 1).Immediate
        ELSE IF ins.Operation = "ADD" /\ adrpRegister = Operand(ins, 1).Reg
             THEN adrpImm + Operand(ins, 2).Immediate
             ELSE adrpImm

IsAdrpPair(prev, ins) ==
    /\ prev # NilInstr
    /\ prev.Operation = "ADRP"
    /\ ins.Operation \in {"ADD", "LDR"}

\* references after the first pass has seen ins, prev being the instruction
\* decoded before it.
Record(refs, prev, ins) ==
    IF ins.Encoding \in {"BL_ONLY_BRANCH_IMM", "B_ONLY_BRANCH_IMM"}
    THEN (ins.Address :> Operand(ins, 0).Immediate) @@ refs
    ELSE IF ins.Encoding = "CBZ_64_COMPBRANCH"
    THEN (ins.Address :> Operand(ins, 1).Immediate) @@ refs
    ELSE IF ins.Operation \in {"ADR", "LDR"}
    THEN (ins.Address :> Operand(ins, 1).Immediate) @@ refs
    ELSE IF IsAdrpPair(prev, ins)
    THEN (ins.Address :> AdrpPairImm(prev, ins)) @@ refs
    ELSE refs

\* failXrefVMAddr-0x20 < a && a < failXrefVMAddr in uint64: below 0x20 the
\* difference wraps to the top of the range, above every address there is.
WindowSize == 32
InWindow(a, fail) == IF fail >= WindowSize THEN fail - WindowSize < a /\ a < fail ELSE FALSE

\* 2^n
RECURSIVE Pow2(_)
Pow2(n) == IF n = 0 THEN 1 ELSE 2 * Pow2(n - 1)

\* profileVMAddr after the second pass has seen ins.
Pass2Addr(addr, prev, ins) ==
    IF InWindow(ins.Address, failXrefVMAddr) /\ IsAdrpPair(prev, ins)
    THEN AdrpPairImm(prev, ins)
    ELSE addr

\* profileSize after the second pass has seen ins.
Pass2Size(size, prev, ins) ==
    IF ~InWindow(ins.Address, failXrefVMAddr) \/ IsAdrpPair(prev, ins) THEN size
    ELSE IF ins.Operation = "MOV"
    THEN LET imms == {i \in 1..Len(ins.Operands) : ins.Operands[i].Class = "IMM64"}
         IN  IF imms = {} THEN size ELSE ins.Operands[Max(imms)].Immediate
    ELSE IF ins.Operation = "MOVK" /\ prev.Operation = "MOV"
    THEN IF /\ Operand(prev, 0).Reg = Operand(ins, 0).Reg
            /\ Operand(ins, 1).Class = "IMM32"
            /\ Operand(ins, 1).ShiftType = "LSL"
         THEN Operand(prev, 1).Immediate
                  + Operand(ins, 1).Immediate * Pow2(Operand(ins, 1).ShiftValue)
         ELSE size
    ELSE size

LocInit ==
    /\ \/ /\ code \in Programs(MaxEdits)
          /\ infos = KextNames
          /\ pivotInImage = TRUE
       \/ /\ code = Canonical
          /\ infos \in {KextNames, OtherKextNames}
          /\ pivotInImage \in BOOLEAN
    /\ LocalsInit
    /\ locPc = "start"
    /\ calls = <<>>
    /\ OptsIdle
    /\ ParseIdle

\* Lines 105-162: the panic string, the kext range and its words.
LocStart ==
    /\ locPc = "start"
    /\ IF ~pivotInImage
       THEN /\ ret' = [kind |-> "err"]
            /\ locPc' = "done"
            /\ UNCHANGED <<panicStrVMAddr, sbInstrData, startAddr>>
       ELSE /\ panicStrVMAddr' = Image.PanicStr
            /\ sbInstrData' = IF HasSandboxKext THEN code ELSE <<>>
            /\ startAddr' = sandboxKextStartVaddr
            /\ locPc' = "pass1"
            /\ ret' = ret
    /\ UNCHANGED <<wordIdx, prevInstr, references, panicXrefVMAddr, failXrefVMAddr,
                   profileVMAddr, profileSize, imageVars, calls, optsVars, parseVars>>

\* One iteration of the first loop: a word that does not decode is skipped
\* by continue, before prevInstr and startAddr are updated.
Pass1Step ==
    /\ locPc = "pass1"
    /\ wordIdx < Len(sbInstrData)
    /\ wordIdx' = wordIdx + 1
    /\ LET d == Decompose(startAddr, sbInstrData[wordIdx + 1])
       IN  IF d.err
           THEN UNCHANGED <<references, prevInstr, startAddr>>
           ELSE /\ references' = Record(references, prevInstr, Instr(d))
                /\ prevInstr' = Instr(d)
                /\ startAddr' = startAddr + InstrSize
    /\ UNCHANGED <<panicStrVMAddr, sbInstrData, panicXrefVMAddr, failXrefVMAddr,
                   profileVMAddr, profileSize, ret, locPc, imageVars, calls,
                   optsVars, parseVars>>

\* The first loop ends at io.EOF; then "for k, v := range references" takes
\* the first key it meets whose value is panicStrVMAddr, in the map's
\* iteration order, which Go leaves unspecified.
SelectPanicXref ==
    /\ locPc = "pass1"
    /\ wordIdx = Len(sbInstrData)
    /\ LET ks == {k \in DOMAIN references : references[k] = panicStrVMAddr}
       IN  panicXrefVMAddr' \in IF ks = {} THEN {0} ELSE {k - 4 : k \in ks}
    /\ locPc' = "failXref"
    /\ UNCHANGED <<panicStrVMAddr, sbInstrData, wordIdx, startAddr, prevInstr,
                   references, failXrefVMAddr, profileVMAddr, profileSize, ret,
                   imageVars, calls, optsVars, parseVars>>

\* The second range loop, on the values equal to panicXrefVMAddr; then the
\* reader and startAddr are set back for the second pass (prevInstr is not).
SelectFailXref ==
    /\ locPc = "failXref"
    /\ LET ks == {k \in DOMAIN references : references[k] = panicXrefVMAddr}
       IN  failXrefVMAddr' \in IF ks = {} THEN {0} ELSE ks
    /\ startAddr' = sandboxKextStartVaddr
    /\ wordIdx' = 0
    /\ locPc' = "pass2"
    /\ UNCHANGED <<panicStrVMAddr, sbInstrData, prevInstr, references,
                   panicXrefVMAddr, profileVMAddr, profileSize, ret, imageVars,
                   calls, optsVars, parseVars>>

\* One iteration of the second loop.
Pass2Step ==
    /\ locPc = "pass2"
    /\ wordIdx < Len(sbInstrData)
    /\ wordIdx' = wordIdx + 1
    /\ LET d == Decompose(startAddr, sbInstrData[wordIdx + 1])
       IN  IF d.err
           THEN UNCHANGED <<profileVMAddr, profileSize, prevInstr, startAddr>>
           ELSE /\ profileVMAddr' = Pass2Addr(profileVMAddr, prevInstr, Instr(d))
                /\ profileSize' = Pass2Size(profileSize, prevInstr, Instr(d))
                /\ prevInstr' = Instr(d)
                /\ startAddr' = startAddr + InstrSize
    /\ UNCHANGED <<panicStrVMAddr, sbInstrData, references, panicXrefVMAddr,
                   failXrefVMAddr, ret, locPc, imageVars, calls, optsVars, parseVars>>

\* Lines 275-291: the second loop ends; the profile's offset is looked up
\* and profileSize bytes are read there.  The bytes returned are those of the
\* image at [vmaddr, vmaddr + size).
ReadBlob ==
    /\ locPc = "pass2"
    /\ wordIdx = Len(sbInstrData)
    /\ ret' = IF GetOffsetFails(profileVMAddr) \/ ReadAtFails(profileVMAddr, profileSize)
              THEN [kind |-> "err"]
              ELSE [kind |-> "ok", vmaddr |-> profileVMAddr, size |-> profileSize]
    /\ locPc' = "done"
    /\ UNCHANGED <<panicStrVMAddr, sbInstrData, wordIdx, startAddr, prevInstr,
                   references, panicXrefVMAddr, failXrefVMAddr, profileVMAddr,
                   profileSize, imageVars, calls, optsVars, parseVars>>

\* The function is called once more on the same image and pivot string.
CallAgain ==
    /\ locPc = "done"
    /\ calls = <<>>
    /\ calls' = << [panicXref |-> panicXrefVMAddr, failXref |-> failXrefVMAddr,
                    ret |-> ret] >>
    /\ panicStrVMAddr' = 0
    /\ sbInstrData' = <<>>
    /\ wordIdx' = 0
    /\ startAddr' = 0
    /\ prevInstr' = NilInstr
    /\ references' = <<>>
    /\ panicXrefVMAddr' = 0
    /\ failXrefVMAddr' = 0
    /\ profileVMAddr' = 0
    /\ profileSize' = 0
    /\ ret' = NoReturn
    /\ locPc' = "start"
    /\ UNCHANGED <<imageVars, optsVars, parseVars>>

LocNext ==
    \/ LocStart
    \/ Pass1Step
    \/ SelectPanicXref
    \/ SelectFailXref
    \/ Pass2Step
    \/ ReadBlob
    \/ CallAgain

SpecLoc == LocInit /\ [][LocNext]_vars
(***************************************************************************)
(* Claims about getSandboxData                                             *)
(***************************************************************************)
\* The keys of the xref map whose value is v.
KeysOf(v) == {k \in DOMAIN references : references[k] = v}

\* C6: the call returns a blob only when every step resolved uniquely: a
\* sandbox kext, exactly one xref to the panic string, exactly one xref to
\* panic_xref, and a profile address and size other than the zero default.
C6_UniqueResolutionOrError ==
    (locPc = "done" /\ ret.kind = "ok") =>
        /\ HasSandboxKext
        /\ Cardinality(KeysOf(panicStrVMAddr)) = 1
        /\ Cardinality(KeysOf(panicXrefVMAddr)) = 1
        /\ profileVMAddr # 0
        /\ profileSize # 0

\* C7: a second call on the same image and pivot string chooses the same
\* panic_xref and fail_xref as the first and returns the same result.
C7_LocatorDeterminism ==
    (locPc = "done" /\ calls # <<>>) =>
        calls[1] = [panicXref |-> panicXrefVMAddr, failXref |-> failXrefVMAddr,
                    ret |-> ret]

\* The first pass is over, on code all of whose words decode.
FirstPassDone ==
    /\ locPc \in {"failXref", "pass2", "done"}
    /\ sbInstrData = code
    /\ \A i \in 1..Len(code) : code[i].op # "BAD"

\* The instruction at index i (from 0) of the code.
InstrAt(i) == Instr(Decompose(TrueAddr(i), code[i + 1]))

\* Index i holds an ADRP and index i + 1 an ADD or an LDR with a base
\* register.
AdrpThenAddOrLdr(i) ==
    /\ InstrAt(i).Operation = "ADRP"
    /\ InstrAt(i + 1).Operation \in {"ADD", "LDR"}
    /\ Operand(InstrAt(i + 1), 1).Reg # ""

\* C9: after the first pass, for every ADRP followed by an ADD or LDR whose
\* first source register is the ADRP's destination, the xref at the second
\* instruction's address is the page immediate plus the second immediate
\* (operand 2 of the ADD, operand 1 of the LDR).
C9_AdrpPairFused ==
    FirstPassDone =>
        \A i \in 0..(Len(code) - 2) :
            (/\ AdrpThenAddOrLdr(i)
             /\ Operand(InstrAt(i + 1), 1).Reg = Operand(InstrAt(i), 0).Reg)
                => /\ TrueAddr(i + 1) \in DOMAIN references
                   /\ references[TrueAddr(i + 1)]
                        = Operand(InstrAt(i), 1).Immediate
                            + (IF InstrAt(i + 1).Operation = "ADD"
                               THEN Operand(InstrAt(i + 1), 2).Immediate
                               ELSE Operand(InstrAt(i + 1), 1).Immediate)

\* C10: after the first pass, for every ADRP followed by an ADD or LDR whose
\* first source register is not the ADRP's destination, no xref holding the
\* ADRP's page immediate is recorded at the second instruction's address.
C10_NoFusionOnMismatch ==
    FirstPassDone =>
        \A i \in 0..(Len(code) - 2) :
            (/\ AdrpThenAddOrLdr(i)
             /\ Operand(InstrAt(i + 1), 1).Reg # Operand(InstrAt(i), 0).Reg)
                => ~(/\ TrueAddr(i + 1) \in DOMAIN references
                     /\ references[TrueAddr(i + 1)] = Operand(InstrAt(i), 1).Immediate)

\* C11: in both passes the word at index wordIdx, byte offset
\* InstrSize * wordIdx, is decoded with pc = code base + that offset, whatever
\* words before it failed to decode; and once the first pass is over every
\* branch of the code has its xref entry under its true address, with the
\* target computed from that address.
C11_DecodedAtTrueAddress ==
    (locPc \in {"pass1", "pass2", "done"} /\ sbInstrData = code) =>
        /\ (locPc # "done" => startAddr = TrueAddr(wordIdx))
        /\ (locPc # "pass1" =>
               \A i \in 0..(Len(code) - 1) :
                   code[i + 1].op \in {"B", "CBZ"} =>
                       /\ TrueAddr(i) \in DOMAIN references
                       /\ references[TrueAddr(i)] = TrueAddr(i) + code[i + 1].imm)

\* a | b of two non-negative integers
RECURSIVE BitOr(_, _)
BitOr(a, b) ==
    IF a = 0 THEN b
    ELSE IF b = 0 THEN a
    ELSE (IF a % 2 = 1 \/ b % 2 = 1 THEN 1 ELSE 0) + 2 * BitOr(a \div 2, b \div 2)

\* The second pass is about to decode a MOVK Rd, #imm2, LSL #s inside the
\* window, and the instruction decoded before it is a MOV Rd, #imm.
MovkAfterMovInWindow ==
    /\ locPc = "pass2"
    /\ wordIdx < Len(sbInstrData)
    /\ LET d == Decompose(startAddr, sbInstrData[wordIdx + 1])
       IN  /\ ~d.err
           /\ InWindow(d.Address, failXrefVMAddr)
           /\ d.Operation = "MOVK"
           /\ prevInstr # NilInstr
           /\ prevInstr.Operation = "MOV"
           /\ Operand(prevInstr, 0).Reg = Operand(Instr(d), 0).Reg
           /\ Operand(Instr(d), 1).ShiftType = "LSL"

\* C13: the step of the second pass that meets such a MOV/MOVK pair leaves
\* profileSize = imm | (imm2 << s), also when the two have bits in common.
C13_MovkSizeIsOr ==
    [][MovkAfterMovInWindow =>
          profileSize' =
              BitOr(Operand(prevInstr, 1).Immediate,
                    Operand(Instr(Decompose(startAddr, sbInstrData[wordIdx + 1])), 1).Immediate
                        * Pow2(Operand(Instr(Decompose(startAddr, sbInstrData[wordIdx + 1])), 1).ShiftValue))]_vars
====
